---- MODULE Spec2Model ----
(***************************************************************************)
(* A model of asmpipe.py: the driver main() that trims, quality-checks,    *)
(* assembles, types and depth-profiles paired FASTQ samples by calling     *)
(* external tools, and that keeps the list of active samples               *)
(* (sequence_list) and of failed ones (unsuccessful_sequences).            *)
(*                                                                         *)
(* File names are sequences of strings.  The raw read files, on which the  *)
(* code searches, replaces and slices, are spelled character by character; *)
(* every other path is <<directory>> \o sample \o <<extension>>.           *)
(***************************************************************************)
EXTENDS Integers, Sequences, FiniteSets, TLC

\* Number of invocations of main() on the same working directory.
MaxRuns == 2
\* Number of failures of the outside world in one behaviour: an external
\* tool ending non-zero although its inputs exist, or call() raising OSError.
MaxFaults == 2

\* args.threads when the option is absent (line 132).
DefaultThreads == 4

---------------------------------------------------------------------------
\* Python's string operations, on sequences.

\* s[i:i+len(sub)] == sub, i counted from 1
MatchAt(s, sub, i) ==
    /\ i + Len(sub) - 1 <= Len(s)
    /\ SubSeq(s, i, i + Len(sub) - 1) = sub

\* s.find(sub) != -1
Find(s, sub) == \E i \in 1..(Len(s) + 1) : MatchAt(s, sub, i)

\* s.endswith(sub)
EndsWith(s, sub) ==
    /\ Len(sub) <= Len(s)
    /\ SubSeq(s, Len(s) - Len(sub) + 1, Len(s)) = sub

RECURSIVE ReplaceFrom(_, _, _, _)
ReplaceFrom(s, old, new, i) ==
    IF i > Len(s) THEN <<>>
    ELSE IF MatchAt(s, old, i)
         THEN new \o ReplaceFrom(s, old, new, i + Len(old))
         ELSE <<s[i]>> \o ReplaceFrom(s, old, new, i + 1)

\* s.replace(old, new), old not empty
Replace(s, old, new) == ReplaceFrom(s, old, new, 1)

\* s[:-n]
DropLast(s, n) == IF Len(s) <= n THEN <<>> ELSE SubSeq(s, 1, Len(s) - n)

\* x in list
InList(x, list) == \E i \in 1..Len(list) : list[i] = x

RECURSIVE RemoveFrom(_, _, _)
RemoveFrom(list, x, i) ==
    IF i > Len(list) THEN list
    ELSE IF list[i] = x
         THEN SubSeq(list, 1, i - 1) \o SubSeq(list, i + 1, Len(list))
         ELSE RemoveFrom(list, x, i + 1)

\* list.remove(x), x in list: the first occurrence goes
ListRemove(list, x) == RemoveFrom(list, x, 1)

Range(list) == {list[i] : i \in 1..Len(list)}

RECURSIVE UniqFrom(_, _)
UniqFrom(list, i) ==
    IF i > Len(list) THEN <<>>
    ELSE IF list[i] \in Range(SubSeq(list, 1, i - 1))
         THEN UniqFrom(list, i + 1)
         ELSE <<list[i]>> \o UniqFrom(list, i + 1)

---------------------------------------------------------------------------
\* The names in the working directory.

Chars(str) ==
    CASE str = ".gz" -> <<".", "g", "z">>
      [] str = ".fastq.gz" -> <<".", "f", "a", "s", "t", "q", ".", "g", "z">>
      [] str = "fastq.gz" -> <<"f", "a", "s", "t", "q", ".", "g", "z">>
      [] str = "_1.fastq" -> <<"_", "1", ".", "f", "a", "s", "t", "q">>
      [] str = "_2.fastq" -> <<"_", "2", ".", "f", "a", "s", "t", "q">>
      [] str = "_1.f" -> <<"_", "1", ".", "f">>
      [] str = "_2.f" -> <<"_", "2", ".", "f">>
      [] str = "_1" -> <<"_", "1">>
      [] str = "_2" -> <<"_", "2">>
      [] str = "" -> <<>>
      [] str = "_1.fastq.gz" -> <<"_", "1", ".", "f", "a", "s", "t", "q", ".", "g", "z">>
      [] str = "_2.fastq.gz" -> <<"_", "2", ".", "f", "a", "s", "t", "q", ".", "g", "z">>
      [] str = "_R1_001" -> <<"_", "R", "1", "_", "0", "0", "1">>
      [] str = "_R2_001" -> <<"_", "R", "2", "_", "0", "0", "1">>
      [] str = "_L001_R1_001" ->
            <<"_", "L", "0", "0", "1", "_", "R", "1", "_", "0", "0", "1">>
      [] str = "_L001_R2_001" ->
            <<"_", "L", "0", "0", "1", "_", "R", "2", "_", "0", "0", "1">>

\* The sample identities of the inputs: one is a suffix of the other.
SampleNames == {<<"A">>, <<"B", "A">>}
Mates == {"_1", "_2"}

\* <sample>_1.fastq.gz, <sample>_2.fastq.gz
RawName(s, m) == s \o Chars(m) \o Chars(".fastq.gz")

\* os.listdir / glob give the names in an order of their own: this one.
ListingOrder ==
    << RawName(<<"A">>, "_1"), RawName(<<"A">>, "_2"),
       RawName(<<"B", "A">>, "_1"), RawName(<<"B", "A">>, "_2") >>

AllRaw == Range(ListingOrder)

\* glob.glob("*fastq.gz") on a directory holding the raw files `raw`
Glob(raw) ==
    SelectSeq(ListingOrder, LAMBDA f : f \in raw /\ EndsWith(f, Chars("fastq.gz")))

\* The names a sequencer or a download may give the read files: with the
\* _1/_2 suffix, with Illumina's _R1_001 or _L001_R1_001, or with none.
NameForms ==
    {"", "_1", "_2", "_R1_001", "_R2_001", "_L001_R1_001", "_L001_R2_001"}

AllNames ==
    {s \o Chars(m) \o Chars(".fastq.gz") : s \in SampleNames, m \in NameForms}

\* Number of files in a directory of such names.
MaxNames == 3

\* lines 182-183 on one file name: the perl expressions s/.../.../g of the
\* four rename calls, in their order
RenameName(f) ==
    Replace(Replace(Replace(Replace(f,
        Chars("_L001_R1_001"), Chars("_1")), Chars("_L001_R2_001"), Chars("_2")),
        Chars("_R1_001"), Chars("_1")), Chars("_R2_001"), Chars("_2"))

\* the directory after lines 182-183
RenameDir(dir) == {RenameName(f) : f \in dir}

\* the directories of at most MaxNames files no two of which get the same
\* name
NameDirs ==
    {d \in SUBSET AllNames :
        Cardinality(d) <= MaxNames /\ Cardinality(RenameDir(d)) = Cardinality(d)}

\* glob.glob("*fastq.gz") on a directory: its files of that form, in any order
Listings(dir) ==
    LET d == {f \in dir : EndsWith(f, Chars("fastq.gz"))}
    IN {q \in [1..Cardinality(d) -> d] :
           \A i, j \in 1..Cardinality(d) : q[i] = q[j] => i = j}

---------------------------------------------------------------------------
\* Sample discovery and the pairing check (lines 185-205).

\* the loop body of lines 187-192 without its "not in sequence_list"
AddSequenceAgain(list, sequence) ==
    LET name == Replace(sequence, Chars(".gz"), <<>>)
        base == DropLast(name, 8)
        l1 == IF Find(name, Chars("_1.fastq")) THEN Append(list, base) ELSE list
        l2 == IF Find(name, Chars("_2.fastq")) THEN Append(l1, base) ELSE l1
    IN l2

\* one pass of the loop body of lines 187-192
AddSequence(list, sequence) ==
    LET name == Replace(sequence, Chars(".gz"), <<>>)
        base == DropLast(name, 8)
        l1 == IF Find(name, Chars("_1.fastq")) /\ ~InList(base, list)
              THEN Append(list, base) ELSE list
        l2 == IF Find(name, Chars("_2.fastq")) /\ ~InList(base, l1)
              THEN Append(l1, base) ELSE l1
    IN l2

RECURSIVE DiscoverFrom(_, _, _)
DiscoverFrom(sequences, list, i) ==
    IF i > Len(sequences) THEN list
    ELSE DiscoverFrom(sequences, AddSequence(list, sequences[i]), i + 1)

\* sequence_list as built from sequences
Discover(sequences) == DiscoverFrom(sequences, <<>>, 1)

\* the test of lines 197-204 on one seqName: a file holding seqName_1.f
\* and a file holding seqName_2.f, anywhere in their names
HasPair(seqName, sequences) ==
    /\ \E i \in 1..Len(sequences) : Find(sequences[i], seqName \o Chars("_1.f"))
    /\ \E i \in 1..Len(sequences) : Find(sequences[i], seqName \o Chars("_2.f"))

\* missing_pairs
MissingPairs(list, sequences) ==
    SelectSeq(list, LAMBDA seqName : ~HasPair(seqName, sequences))

---------------------------------------------------------------------------
\* The files the stages read and write.

Path(dir, s, ext) == <<dir>> \o s \o <<ext>>

ValExts == {"_1_val_1.fq.gz", "_2_val_2.fq.gz"}

\* the two files trim_galore --paired writes, in the working directory
ValInCwd(s) == {Path("./", s, e) : e \in ValExts}
Trimmed(s) == {Path("./trimmed_reads/", s, e) : e \in ValExts}

\* <sample>_1_val_1.fq.gz: an entry of the fastqc run list
FastqcItem(s, e) == s \o <<e>>
ZipExt(e) == IF e = "_1_val_1.fq.gz" THEN "_1_val_1_fastqc.zip"
                                     ELSE "_2_val_2_fastqc.zip"
\* the archive fastqc writes for ./trimmed_reads/<f>
ZipOf(f) == <<"./QC/fastQC/">> \o DropLast(f, 1) \o <<ZipExt(f[Len(f)])>>

AssemblyMarker(s) == Path("success/", s, "_Assembly_complete.txt")
\* what unicycler writes, and what lines 333-343 rename it to
UnicyclerOut(s) == <<"assembly/">> \o s \o <<"_assembly/", "assembly.fasta">>
AssemblyFasta(s) == <<"assembly/">> \o s \o <<"_assembly/">> \o s \o <<"_assembly.fasta">>
FastaCopy(s) == Path("fasta/", s, "_assembly.fasta")

DepthMarker(s) == Path("success/", s, "_readDepth.Success")
DepthTsv(s) == Path("QC/readDepth/", s, "_X.tsv")

MultiqcTable == <<"QC/multiqc_trimmed/multiqc_data/multiqc_fastqc.txt">>
QuastTable == <<"QC/Quast/transposed_report.tsv">>
MlstTable == <<"analyses/mlst.tsv">>
DepthTable == <<"QC/readDepth/overall__readDepth.tsv">>
KleborateOut == <<"analyses/Kleborate.txt">>
Report == <<"Asmbl.csv">>

\* mv *val* ./trimmed_reads (lines 225, 250)
IsValInCwd(p) == p[1] = "./" /\ p[Len(p)] \in ValExts
MoveVal(fs) ==
    {p \in fs : ~IsValInCwd(p)}
        \cup {<<"./trimmed_reads/">> \o Tail(p) : p \in {q \in fs : IsValInCwd(q)}}

\* file_exists (lines 69-78): the entries of seqlist with no file
\* path + seq + extention; an empty result stands for the None it returns
file_exists(fs, seqlist, path, extention) ==
    SelectSeq(seqlist, LAMBDA seq : Path(path, seq, extention) \notin fs)

\* the run list written out as it is, set() forgotten
RunListAsIs(run_list) == run_list

\* set(run_list), in the order its items are written to the list file
UniqRunList(run_list) == UniqFrom(run_list, 1)

\* lines 333-351: each assembly gets its sample's prefix and a copy in fasta/
PostAssembly(fs) ==
    {p \in fs : \A s \in SampleNames : p # UnicyclerOut(s)}
        \cup {AssemblyFasta(s) : s \in {x \in SampleNames : UnicyclerOut(x) \in fs}}
        \cup {FastaCopy(s) : s \in {x \in SampleNames :
                                      UnicyclerOut(x) \in fs \/ AssemblyFasta(x) \in fs}}

---------------------------------------------------------------------------
\* The state of main().

VARIABLES
    pc,                      \* where main() is
    run,                     \* which invocation of main() this is
    args,                    \* the options, the same in every invocation
    rawFiles,                \* the *.fastq.gz names of the working directory
    files,                   \* every other file on disk
    sequence_list,           \* the active samples
    unsuccessful_sequences,  \* the failed samples
    item,                    \* the loop variable the except blocks read
    pending, running,        \* work items not yet started / being worked on
    listed,                  \* per stage: the work items handed over, this run
    results,                 \* <<stage, item, outcome>> of every worker, this run
    started,                 \* the stages begun, in order, this run
    manifests,               \* successful_sequences.txt and failed_sequences.txt
    exitLine,                \* the line an invocation ended on before its end
    faults,                  \* failures of the outside world so far
    runFailed,               \* something failed or raised in this run
    prev,                    \* how the previous invocation went
    tables,                  \* per report column: the samples its table has a row of
    report                   \* the report file of the latest invocation that wrote one

vars == <<pc, run, args, rawFiles, files, sequence_list, unsuccessful_sequences,
          item, pending, running, listed, results, started, manifests,
          exitLine, faults, runFailed, prev, tables, report>>

WorkerStages == {"trim", "fastqc", "assembly", "depth"}

ThreadChoices == {DefaultThreads}

ArgSets ==
    [noex : BOOLEAN, nofqc : BOOLEAN, nomlst : BOOLEAN, noquast : BOOLEAN,
     nocov : BOOLEAN, klebs : BOOLEAN, threads : ThreadChoices]

\* lines 131-138
threads == args.threads
unic_threads == IF threads > 8 THEN threads \div 8 ELSE threads

NoListed == [st \in WorkerStages |-> <<>>]
NoManifests == [run |-> 0, successful |-> <<>>, failed |-> <<>>]

\* the four tables the report is merged from, by the columns they give it:
\* mlst.tsv, Quast's transposed_report.tsv, overall__readDepth.tsv and
\* multiqc_fastqc.txt
Columns == {"typing", "metrics", "depth", "reads"}
NoTables == [c \in Columns |-> {}]
NoReport == [run |-> 0, rows |-> {}]

\* main() is entered for the first time: nothing was written yet
FirstEntry ==
    /\ pc = "start"
    /\ run = 1
    /\ files = {}
    /\ sequence_list = <<>>
    /\ unsuccessful_sequences = <<>>
    /\ item = <<>>
    /\ pending = {}
    /\ running = {}
    /\ listed = NoListed
    /\ results = {}
    /\ started = <<>>
    /\ manifests = NoManifests
    /\ exitLine = 0
    /\ faults = 0
    /\ runFailed = FALSE
    /\ prev = [ran |-> FALSE, wrote |-> FALSE, failed |-> FALSE]
    /\ tables = NoTables
    /\ report = NoReport

Init ==
    /\ args \in ArgSets
    /\ rawFiles \in SUBSET AllRaw
    /\ FirstEntry

\* Both samples complete and every stage enabled, under a --threads that
\* is below the number of jobs of a stage (1, 2) or above 8 (9), where
\* unicycler gets threads/8 jobs.
WorkerThreadChoices == {1, 2, 9}

InitWorkers ==
    /\ args \in [noex : {FALSE}, nofqc : {FALSE}, nomlst : {FALSE},
                  noquast : {FALSE}, nocov : {FALSE}, klebs : {TRUE},
                  threads : WorkerThreadChoices]
    /\ rawFiles = AllRaw
    /\ FirstEntry

\* The outside world fails: within the budget, and remembered for the run.
Fault ==
    /\ faults < MaxFaults
    /\ faults' = faults + 1
    /\ runFailed' = TRUE

NoFault == UNCHANGED <<faults, runFailed>>

\* A failure the state of the disk forces: no budget is spent on it.
Forced ==
    /\ runFailed' = TRUE
    /\ UNCHANGED faults

\* An uncaught exception, or sys.exit, on line n.
EndsAt(state, n) ==
    /\ pc' = state
    /\ exitLine' = n

---------------------------------------------------------------------------
\* Lines 170-227: the inputs, their names, the samples and their pairs.

\* lines 171-178, 453-457: with no *.fastq.gz the else branch only logs, and
\* line 457 then reads sequence_list, which was never bound
Main_Start ==
    /\ pc = "start"
    /\ IF \E f \in rawFiles : EndsWith(f, Chars(".fastq.gz"))
       THEN pc' = "rename" /\ UNCHANGED exitLine
       ELSE EndsAt("crashed", 457)
    /\ UNCHANGED <<run, args, rawFiles, tables, report, files, sequence_list,
                   unsuccessful_sequences, item, pending, running, listed,
                   results, started, manifests, faults, runFailed, prev>>

\* lines 181-183: the two rename commands, outside any try
Rename ==
    /\ pc = "rename"
    /\ \/ /\ pc' = "discover"
          /\ rawFiles' = RenameDir(rawFiles)
          /\ NoFault
          /\ UNCHANGED exitLine
       \/ /\ Fault
          /\ EndsAt("crashed", 182)
          /\ UNCHANGED rawFiles
    /\ UNCHANGED <<run, args, tables, report, files, sequence_list,
                   unsuccessful_sequences, item, pending, running, listed,
                   results, started, manifests, prev>>

\* lines 185-227: sequence_list, the pairing check and its sys.exit, then
\* the trimmed reads left in the working directory move to trimmed_reads
DiscoverAndCheck ==
    /\ pc = "discover"
    /\ LET sequences == Glob(rawFiles)
           found == Discover(sequences)
       IN /\ sequence_list' = found
          /\ IF MissingPairs(found, sequences) # <<>>
             THEN /\ EndsAt("halted", 212)
                  /\ UNCHANGED <<files, unsuccessful_sequences>>
             ELSE /\ pc' = "trim"
                  /\ unsuccessful_sequences' = <<>>
                  /\ files' = MoveVal(files)
                  /\ UNCHANGED exitLine
    /\ UNCHANGED <<run, args, rawFiles, tables, report, item, pending, running, listed,
                   results, started, manifests, faults, runFailed, prev>>

---------------------------------------------------------------------------
\* Lines 229-257: trimming.

\* the run list of lines 230-239
TrimRunList(fs, list) ==
    file_exists(fs, list, "./trimmed_reads/", "_1_val_1.fq.gz")
        \o file_exists(fs, list, "./trimmed_reads/", "_2_val_2.fq.gz")

\* lines 252-257: the except block; glob(item+'*_fq.gz') matches no file,
\* the trimmed reads end in .fq.gz
TrimExcept(it) ==
    /\ sequence_list' = ListRemove(sequence_list, it)
    /\ unsuccessful_sequences' = Append(unsuccessful_sequences, it)

\* lines 230-248: the run list, its file, and the call of parallel. item is
\* the last line written, any member of the set. call() may raise OSError
\* (line 62): no worker starts then and the except block runs.
TrimDispatch ==
    /\ pc = "trim"
    /\ LET run_list == TrimRunList(files, sequence_list)
           uniq_run_list == UniqRunList(run_list)
       IN IF run_list = <<>>
          THEN /\ pc' = "fastqc"
               /\ NoFault
               /\ UNCHANGED <<sequence_list, unsuccessful_sequences, item,
                              pending, listed, started>>
          ELSE /\ started' = Append(started, "trim")
               /\ listed' = [listed EXCEPT !["trim"] = uniq_run_list]
               /\ \E it \in Range(uniq_run_list) :
                    /\ item' = it
                    /\ \/ /\ pending' = Range(uniq_run_list)
                          /\ pc' = "trim_workers"
                          /\ NoFault
                          /\ UNCHANGED <<sequence_list, unsuccessful_sequences>>
                       \/ /\ Fault
                          /\ TrimExcept(it)
                          /\ pc' = "fastqc"
                          /\ UNCHANGED pending
    /\ UNCHANGED <<run, args, rawFiles, tables, report, files, running, results, manifests,
                   exitLine, prev>>

\* unicycler given the job count of trim_galore and fastqc
JobsOfTrim == threads

\* parallel --jobs N takes the lines of the list file in their order and
\* starts the next one while fewer than N jobs are running
Jobs == IF pc = "assembly_workers" THEN unic_threads ELSE threads

StageOf(p) ==
    CASE p = "trim_workers" -> "trim"
      [] p = "fastqc_workers" -> "fastqc"
      [] p = "assembly_workers" -> "assembly"

\* parallel --halt now,fail=1: no job starts once a job of the stage failed
HaltsOnFailure ==
    \A r \in results : r[1] = StageOf(pc) => r[3] = "ok"

\* parallel is called without --halt: a failed job stops no other job
KeepsStarting == TRUE

NextInList(list, waiting) ==
    list[CHOOSE i \in 1..Len(list) :
            /\ list[i] \in waiting
            /\ \A j \in 1..(i - 1) : list[j] \notin waiting]

WorkerStart ==
    /\ pc \in {"trim_workers", "fastqc_workers", "assembly_workers"}
    /\ pending # {}
    /\ KeepsStarting
    /\ Cardinality(running) < Jobs
    /\ LET w == NextInList(listed[StageOf(pc)], pending)
       IN /\ pending' = pending \ {w}
          /\ running' = running \cup {w}
    /\ UNCHANGED <<pc, run, args, rawFiles, tables, report, files, sequence_list,
                   unsuccessful_sequences, item, listed, results, started,
                   manifests, exitLine, faults, runFailed, prev>>

\* call() is back as soon as every job was started
AllWorkersStarted == pending = {}

\* call() waits for the shell, and parallel for every job of its list
AllWorkersDone == pending = {} /\ running = {}

\* trim_galore --paired s_1.fastq.gz s_2.fastq.gz
TrimCanSucceed(s) == RawName(s, "_1") \in rawFiles /\ RawName(s, "_2") \in rawFiles

\* What a worker ends with: ok needs its inputs, a failure with the inputs
\* there is a fault of the outside world.
Outcome(canSucceed, o) ==
    \/ o = "ok" /\ canSucceed /\ NoFault
    \/ o = "fail" /\ canSucceed /\ Fault
    \/ o = "fail" /\ ~canSucceed /\ Forced

\* "partial" is trim_galore ending non-zero after it wrote the trimmed file
\* of the first mate
TrimWorker(s) ==
    /\ pc = "trim_workers"
    /\ s \in running
    /\ running' = running \ {s}
    /\ \E o \in {"ok", "fail", "partial"} :
         /\ \/ o # "partial" /\ Outcome(TrimCanSucceed(s), o)
            \/ o = "partial" /\ TrimCanSucceed(s) /\ Fault
         /\ results' = results \cup {<<"trim", s, IF o = "ok" THEN "ok" ELSE "fail">>}
         /\ files' = CASE o = "ok" -> files \cup ValInCwd(s)
                       [] o = "partial" -> files \cup {Path("./", s, "_1_val_1.fq.gz")}
                       [] OTHER -> files
    /\ UNCHANGED <<pc, run, args, rawFiles, tables, report, sequence_list,
                   unsuccessful_sequences, item, pending, listed, started,
                   manifests, exitLine, prev>>

\* lines 248-257 once parallel is back: the command ends in "; cd", whose
\* status is the one call() returns, so the workers' statuses are lost; then
\* mv *val* fails when there is no such file, and the except block runs
TrimJoin ==
    /\ pc = "trim_workers"
    /\ AllWorkersDone
    /\ IF \E p \in files : IsValInCwd(p)
       THEN /\ files' = MoveVal(files)
            /\ UNCHANGED <<sequence_list, unsuccessful_sequences, runFailed>>
       ELSE /\ TrimExcept(item)
            /\ runFailed' = TRUE
            /\ UNCHANGED files
    /\ pc' = "fastqc"
    /\ UNCHANGED <<run, args, rawFiles, tables, report, item, pending, running, listed,
                   results, started, manifests, exitLine, faults, prev>>

---------------------------------------------------------------------------
\* Lines 260-300: FastQC on the trimmed reads, then MultiQC.

RECURSIVE WithExt(_, _, _)
WithExt(list, e, i) ==
    IF i > Len(list) THEN <<>>
    ELSE <<FastqcItem(list[i], e)>> \o WithExt(list, e, i + 1)

\* the run list of lines 267-275: file names, not samples
FastqcRunList(fs, list) ==
    WithExt(file_exists(fs, list, "./QC/fastQC/", "_1_val_1_fastqc.zip"),
            "_1_val_1.fq.gz", 1)
        \o WithExt(file_exists(fs, list, "./QC/fastQC/", "_2_val_2_fastqc.zip"),
                   "_2_val_2.fq.gz", 1)

\* lines 261-290; the except block appends item, a file name, to the failed
\* samples and removes nothing
FastqcDispatch ==
    /\ pc = "fastqc"
    /\ IF args.nofqc \/ args.noex
       THEN /\ pc' = "assembly"
            /\ NoFault
            /\ UNCHANGED <<unsuccessful_sequences, item, pending, listed, started>>
       ELSE LET run_list == FastqcRunList(files, sequence_list)
                uniq_run_list == UniqRunList(run_list)
            IN IF run_list = <<>>
               THEN /\ pc' = "multiqc"
                    /\ started' = Append(started, "fastqc")
                    /\ NoFault
                    /\ UNCHANGED <<unsuccessful_sequences, item, pending, listed>>
               ELSE /\ started' = Append(started, "fastqc")
                    /\ listed' = [listed EXCEPT !["fastqc"] = uniq_run_list]
                    /\ \E it \in Range(uniq_run_list) :
                         /\ item' = it
                         /\ \/ /\ pending' = Range(uniq_run_list)
                               /\ pc' = "fastqc_workers"
                               /\ NoFault
                               /\ UNCHANGED unsuccessful_sequences
                            \/ /\ Fault
                               /\ unsuccessful_sequences' =
                                      Append(unsuccessful_sequences, it)
                               /\ pc' = "multiqc"
                               /\ UNCHANGED pending
    /\ UNCHANGED <<run, args, rawFiles, tables, report, files, sequence_list, running,
                   results, manifests, exitLine, prev>>

\* fastqc ./trimmed_reads/f -o QC/fastQC
FastqcWorker(f) ==
    /\ pc = "fastqc_workers"
    /\ f \in running
    /\ running' = running \ {f}
    /\ \E o \in {"ok", "fail"} :
         /\ Outcome((<<"./trimmed_reads/">> \o f) \in files, o)
         /\ results' = results \cup {<<"fastqc", f, o>>}
         /\ files' = IF o = "ok" THEN files \cup {ZipOf(f)} ELSE files
    /\ UNCHANGED <<pc, run, args, rawFiles, tables, report, sequence_list,
                   unsuccessful_sequences, item, pending, listed, started,
                   manifests, exitLine, prev>>

\* line 285 returns the status of its closing cd: line 287 follows
FastqcJoin ==
    /\ pc = "fastqc_workers"
    /\ AllWorkersDone
    /\ pc' = "multiqc"
    /\ UNCHANGED <<run, args, rawFiles, tables, report, files, sequence_list,
                   unsuccessful_sequences, item, pending, running, listed,
                   results, started, manifests, exitLine, faults, runFailed,
                   prev>>

\* A one-shot step inside try/except: its table is written when it works.
Aggregate(canSucceed, table) ==
    \/ canSucceed /\ NoFault /\ files' = files \cup {table}
    \/ canSucceed /\ Fault /\ UNCHANGED files
    \/ ~canSucceed /\ Forced /\ UNCHANGED files

\* The same for a step whose table the report reads: the table is written
\* anew, with a row for each of keys; a failing step leaves the old one.
AggregateTable(canSucceed, table, column, keys) ==
    \/ /\ canSucceed /\ NoFault
       /\ files' = files \cup {table}
       /\ tables' = [tables EXCEPT ![column] = keys]
    \/ canSucceed /\ Fault /\ UNCHANGED <<files, tables>>
    \/ ~canSucceed /\ Forced /\ UNCHANGED <<files, tables>>

\* the samples with a fastqc archive: MultiQC names a row after the archive,
\* <sample>_1_val_1 or <sample>_2_val_2, lines 483-484 cut that back to the
\* sample, and line 488 drops the second row of a pair, the two trimmed files
\* of a pair holding the same number of reads
FastqcSamples(fs) ==
    {s \in SampleNames : \E e \in ValExts : ZipOf(FastqcItem(s, e)) \in fs}

\* lines 294-300
Multiqc ==
    /\ pc = "multiqc"
    /\ AggregateTable(\E p \in files : p[1] = "./QC/fastQC/", MultiqcTable,
                      "reads", FastqcSamples(files))
    /\ pc' = "assembly"
    /\ started' = Append(started, "multiqc")
    /\ UNCHANGED <<run, args, rawFiles, report, sequence_list, unsuccessful_sequences,
                   item, pending, running, listed, results, manifests,
                   exitLine, prev>>

---------------------------------------------------------------------------
\* Lines 302-358: assembly.

\* the marker test of line 310 forgotten
AssemblyRunListAll(fs, list) == list

\* the run list of lines 308-315
AssemblyRunList(fs, list) ==
    SelectSeq(list, LAMBDA seq : AssemblyMarker(seq) \notin fs)

\* an except block that takes the sample off the list, as that of trimming
AssemblyExceptRemoves(it) ==
    /\ sequence_list' = ListRemove(sequence_list, it)
    /\ unsuccessful_sequences' = Append(unsuccessful_sequences, it)

\* lines 330-331: the except block only logs
AssemblyExcept(it) == UNCHANGED <<sequence_list, unsuccessful_sequences>>

\* lines 308-331. Line 312 moves the reads of each assembled sample with a
\* call outside any try: an OSError there ends the run. Line 331 only logs.
AssemblyDispatch ==
    /\ pc = "assembly"
    /\ LET run_list == AssemblyRunList(files, sequence_list)
           uniq_run_list == UniqRunList(run_list)
       IN \/ /\ Len(run_list) < Len(sequence_list)
             /\ Fault
             /\ EndsAt("crashed", 312)
             /\ UNCHANGED <<files, item, pending, listed, started,
                            sequence_list, unsuccessful_sequences>>
          \/ /\ run_list = <<>>
             /\ NoFault
             /\ files' = PostAssembly(files)
             /\ pc' = "quast"
             /\ started' = Append(started, "assembly")
             /\ UNCHANGED <<item, pending, listed, exitLine,
                            sequence_list, unsuccessful_sequences>>
          \/ /\ run_list # <<>>
             /\ started' = Append(started, "assembly")
             /\ listed' = [listed EXCEPT !["assembly"] = uniq_run_list]
             /\ UNCHANGED exitLine
             /\ \E it \in Range(uniq_run_list) :
                  /\ item' = it
                  /\ \/ /\ pending' = Range(uniq_run_list)
                        /\ pc' = "assembly_workers"
                        /\ NoFault
                        /\ UNCHANGED <<files, sequence_list, unsuccessful_sequences>>
                     \/ /\ Fault
                        /\ AssemblyExcept(it)
                        /\ files' = PostAssembly(files)
                        /\ pc' = "quast"
                        /\ UNCHANGED pending
    /\ UNCHANGED <<run, args, rawFiles, tables, report, running, results,
                   manifests, prev>>

\* unicycler -1 s_1_val_1.fq.gz -2 s_2_val_2.fq.gz, run in trimmed_reads
AssemblyCanSucceed(s) == Trimmed(s) \subseteq files

\* the job of lines 328-329: unicycler ; touch the marker ; mv the reads.
\* The marker is touched whatever unicycler ended with.
AssemblyJob(fs, s, o) ==
    (IF o = "ok" THEN fs \cup {UnicyclerOut(s)} ELSE fs) \cup {AssemblyMarker(s)}

AssemblyWorker(s) ==
    /\ pc = "assembly_workers"
    /\ s \in running
    /\ running' = running \ {s}
    /\ \E o \in {"ok", "fail"} :
         /\ Outcome(AssemblyCanSucceed(s), o)
         /\ results' = results \cup {<<"assembly", s, o>>}
         /\ files' = AssemblyJob(files, s, o)
    /\ UNCHANGED <<pc, run, args, rawFiles, tables, report, sequence_list,
                   unsuccessful_sequences, item, pending, listed, started,
                   manifests, exitLine, prev>>

\* lines 327-358 once parallel is back
AssemblyJoin ==
    /\ pc = "assembly_workers"
    /\ AllWorkersDone
    /\ files' = PostAssembly(files)
    /\ pc' = "quast"
    /\ UNCHANGED <<run, args, rawFiles, tables, report, sequence_list, unsuccessful_sequences,
                   item, pending, running, listed, results, started,
                   manifests, exitLine, faults, runFailed, prev>>

---------------------------------------------------------------------------
\* Lines 360-387: Quast and mlst over the assemblies in fasta/.

HasFasta == \E p \in files : p[1] = "fasta/"

\* the samples with an assembly in fasta/: quast and mlst name a row after
\* the file, <sample>_assembly(.fasta), and lines 462 and 467 cut that back
FastaSamples(fs) == {s \in SampleNames : FastaCopy(s) \in fs}

\* quast left out once its table is there, as a marker would have it
QuastSkippedOrDone == args.noquast \/ args.noex \/ QuastTable \in files

\* line 361: the options alone say whether quast runs
QuastSkipped == args.noquast \/ args.noex

\* lines 361-377
Quast ==
    /\ pc = "quast"
    /\ IF QuastSkipped
       THEN NoFault /\ UNCHANGED <<files, tables, started>>
       ELSE /\ AggregateTable(HasFasta, QuastTable, "metrics", FastaSamples(files))
            /\ started' = Append(started, "quast")
    /\ pc' = "mlst"
    /\ UNCHANGED <<run, args, rawFiles, report, sequence_list, unsuccessful_sequences,
                   item, pending, running, listed, results, manifests,
                   exitLine, prev>>

\* lines 381-387: "mlst *fasta > analyses/mlst.tsv": the redirection empties
\* the table before mlst runs, so a failing mlst leaves no row in it
Mlst ==
    /\ pc = "mlst"
    /\ IF args.nomlst \/ args.noex
       THEN NoFault /\ UNCHANGED <<files, tables, started>>
       ELSE /\ \/ /\ HasFasta /\ NoFault
                  /\ files' = files \cup {MlstTable}
                  /\ tables' = [tables EXCEPT !["typing"] = FastaSamples(files)]
               \/ /\ HasFasta /\ Fault
                  /\ files' = files \ {MlstTable}
                  /\ tables' = [tables EXCEPT !["typing"] = {}]
               \/ /\ ~HasFasta /\ Forced
                  /\ files' = files \ {MlstTable}
                  /\ tables' = [tables EXCEPT !["typing"] = {}]
            /\ started' = Append(started, "mlst")
    /\ pc' = "depth"
    /\ UNCHANGED <<run, args, rawFiles, report, sequence_list, unsuccessful_sequences,
                   item, pending, running, listed, results, manifests,
                   exitLine, prev>>

---------------------------------------------------------------------------
\* Lines 389-432: read depth, one sample after the other.

DepthRunList(fs, list) ==
    SelectSeq(list, LAMBDA seq : DepthMarker(seq) \notin fs)

\* lines 390-402
DepthDispatch ==
    /\ pc = "depth"
    /\ IF args.nocov \/ args.noex
       THEN /\ pc' = "klebs"
            /\ UNCHANGED <<pending, listed, started>>
       ELSE LET run_list == DepthRunList(files, sequence_list)
            IN /\ started' = Append(started, "depth")
               /\ listed' = [listed EXCEPT !["depth"] = UniqRunList(run_list)]
               /\ pending' = Range(run_list)
               /\ pc' = IF run_list = <<>> THEN "depth_cat" ELSE "depth_loop"
    /\ UNCHANGED <<run, args, rawFiles, tables, report, files, sequence_list,
                   unsuccessful_sequences, item, running, results, manifests,
                   exitLine, faults, runFailed, prev>>

\* bwa index and bwa mem read the renamed assembly and both trimmed reads
DepthCanSucceed(s) == AssemblyFasta(s) \in files /\ Trimmed(s) \subseteq files

\* the except block without its sequence_list.remove(item)
DepthExceptKeepsSample(it) ==
    /\ unsuccessful_sequences' = Append(unsuccessful_sequences, it)
    /\ UNCHANGED sequence_list

\* lines 426-429: the except block of one sample
DepthExcept(it) ==
    /\ sequence_list' = ListRemove(sequence_list, it)
    /\ unsuccessful_sequences' = Append(unsuccessful_sequences, it)

\* lines 406-429 for one item of the set: ok touches the marker after the
\* row is written; "fail" is bwa or picard ending non-zero; "late" is a
\* failure of the third or fourth command, the row being written already
DepthWorker(s) ==
    /\ pc = "depth_loop"
    /\ s \in pending
    /\ item' = s
    /\ pending' = pending \ {s}
    /\ pc' = IF pending' = {} THEN "depth_cat" ELSE "depth_loop"
    /\ \E o \in {"ok", "fail", "late"} :
         /\ \/ o # "late" /\ Outcome(DepthCanSucceed(s), o)
            \/ o = "late" /\ DepthCanSucceed(s) /\ Fault
         /\ results' = results \cup {<<"depth", s, IF o = "ok" THEN "ok" ELSE "fail">>}
         /\ files' = CASE o = "ok" -> files \cup {DepthTsv(s), DepthMarker(s)}
                       [] o = "late" -> files \cup {DepthTsv(s)}
                       [] OTHER -> files
         /\ IF o = "ok"
            THEN UNCHANGED <<sequence_list, unsuccessful_sequences>>
            ELSE DepthExcept(s)
    /\ UNCHANGED <<run, args, rawFiles, tables, report, running, listed, started, manifests,
                   exitLine, prev>>

\* the samples with a row of their own in QC/readDepth: line 422 starts the
\* row with the sample, line 477 takes the blank after it away
DepthSamples(fs) == {s \in SampleNames : DepthTsv(s) \in fs}

\* lines 430-432: cat QC/readDepth/*_X.tsv > overall__readDepth.tsv, outside
\* any try; cat ends non-zero when no file has that name
DepthCat ==
    /\ pc = "depth_cat"
    /\ \/ /\ \E p \in files : p[1] = "QC/readDepth/" /\ p[Len(p)] = "_X.tsv"
          /\ NoFault
          /\ files' = files \cup {DepthTable}
          /\ tables' = [tables EXCEPT !["depth"] = DepthSamples(files)]
          /\ pc' = "klebs"
          /\ UNCHANGED exitLine
       \/ /\ \A p \in files : ~(p[1] = "QC/readDepth/" /\ p[Len(p)] = "_X.tsv")
          /\ Forced
          /\ EndsAt("crashed", 432)
          /\ UNCHANGED <<files, tables>>
       \/ /\ Fault
          /\ EndsAt("crashed", 432)
          /\ UNCHANGED <<files, tables>>
    /\ started' = Append(started, "depth_cat")
    /\ UNCHANGED <<run, args, rawFiles, report, sequence_list, unsuccessful_sequences,
                   item, pending, running, listed, results, manifests, prev>>

---------------------------------------------------------------------------
\* Lines 434-500: Kleborate, the two manifests, the report.

\* lines 436-443
Klebs ==
    /\ pc = "klebs"
    /\ IF args.klebs
       THEN /\ Aggregate(HasFasta, KleborateOut)
            /\ started' = Append(started, "klebs")
       ELSE NoFault /\ UNCHANGED <<files, started>>
    /\ pc' = "manifest"
    /\ UNCHANGED <<run, args, rawFiles, tables, report, sequence_list, unsuccessful_sequences,
                   item, pending, running, listed, results, manifests,
                   exitLine, prev>>

\* lines 447-451
WriteManifests ==
    /\ pc = "manifest"
    /\ manifests' = [run |-> run, successful |-> sequence_list,
                     failed |-> unsuccessful_sequences]
    /\ pc' = "report"
    /\ UNCHANGED <<run, args, rawFiles, tables, report, files, sequence_list,
                   unsuccessful_sequences, item, pending, running, listed,
                   results, started, exitLine, faults, runFailed, prev>>

ReportTables == <<MlstTable, QuastTable, DepthTable, MultiqcTable>>
ReportReadLines == <<461, 466, 475, 482>>

\* A data frame is the set of its rows; a row has its sample in Assembly and
\* says of each of the four groups of columns whether its cells are filled.
\* line 457: seq_df, one row for each sample of the list
seq_df(list) ==
    {[Assembly |-> s, typing |-> FALSE, metrics |-> FALSE, depth |-> FALSE,
      reads |-> FALSE] : s \in Range(list)}

\* a merge that keeps the rows both sides have a sample of only
InnerMerge(left, keys, column) ==
    {[r EXCEPT ![column] = TRUE] : r \in {x \in left : x.Assembly \in keys}}

\* pd.merge(left, right, on='Assembly', how='outer'), right being a table
\* with a row for each of keys: the rows of left, with right's cells where
\* right has the sample, and a row for each sample only right has
OuterMerge(left, keys, column) ==
    {[r EXCEPT ![column] = (r.Assembly \in keys)] : r \in left}
        \cup {[[Assembly |-> k, typing |-> FALSE, metrics |-> FALSE,
                 depth |-> FALSE, reads |-> FALSE] EXCEPT ![column] = TRUE] :
                  k \in keys \ {r.Assembly : r \in left}}

\* lines 464, 472, 479, 489: the four merges, in their order
MergedReport(list, tbl) ==
    OuterMerge(OuterMerge(OuterMerge(OuterMerge(seq_df(list),
        tbl["typing"], "typing"), tbl["metrics"], "metrics"),
        tbl["depth"], "depth"), tbl["reads"], "reads")

\* lines 457-500: the four tables are read one after the other, outside any
\* try; read_csv raises on the first that is missing or empty
WriteReport ==
    /\ pc = "report"
    /\ IF \A i \in 1..4 : ReportTables[i] \in files
       THEN /\ files' = files \cup {Report}
            /\ report' = [run |-> run, rows |-> MergedReport(sequence_list, tables)]
            /\ pc' = "done"
            /\ UNCHANGED exitLine
       ELSE /\ LET i == CHOOSE k \in 1..4 :
                          /\ ReportTables[k] \notin files
                          /\ \A j \in 1..(k - 1) : ReportTables[j] \in files
               IN EndsAt("crashed", ReportReadLines[i])
            /\ UNCHANGED <<files, report>>
    /\ UNCHANGED <<run, args, rawFiles, tables, sequence_list, unsuccessful_sequences,
                   item, pending, running, listed, results, started,
                   manifests, faults, runFailed, prev>>

\* main() is invoked again in the same directory with the same options;
\* lines 176-177 bring the raw reads back from Fastq_raw
Rerun ==
    /\ pc \in {"done", "halted", "crashed"}
    /\ run < MaxRuns
    /\ run' = run + 1
    /\ pc' = "start"
    /\ prev' = [ran |-> TRUE, wrote |-> manifests.run = run, failed |-> runFailed]
    /\ sequence_list' = <<>>
    /\ unsuccessful_sequences' = <<>>
    /\ item' = <<>>
    /\ listed' = NoListed
    /\ results' = {}
    /\ started' = <<>>
    /\ exitLine' = 0
    /\ runFailed' = FALSE
    /\ UNCHANGED <<args, rawFiles, files, pending, running, manifests, faults,
                   tables, report>>

Next ==
    \/ Main_Start
    \/ Rename
    \/ DiscoverAndCheck
    \/ TrimDispatch
    \/ WorkerStart
    \/ \E s \in running : TrimWorker(s)
    \/ TrimJoin
    \/ FastqcDispatch
    \/ \E f \in running : FastqcWorker(f)
    \/ FastqcJoin
    \/ Multiqc
    \/ AssemblyDispatch
    \/ \E s \in running : AssemblyWorker(s)
    \/ AssemblyJoin
    \/ Quast
    \/ Mlst
    \/ DepthDispatch
    \/ \E s \in pending : DepthWorker(s)
    \/ DepthCat
    \/ Klebs
    \/ WriteManifests
    \/ WriteReport
    \/ Rerun

Spec == Init /\ [][Next]_vars

\* Lines 170-192 alone, on directories of any of the names and under any
\* order of the listing.
InitNames ==
    /\ args = [noex |-> FALSE, nofqc |-> FALSE, nomlst |-> FALSE,
               noquast |-> FALSE, nocov |-> FALSE, klebs |-> FALSE,
               threads |-> DefaultThreads]
    /\ rawFiles \in NameDirs
    /\ FirstEntry

\* lines 185-192 under a listing of the directory in any order
DiscoverNames ==
    /\ pc = "discover"
    /\ \E sequences \in Listings(rawFiles) :
          sequence_list' = Discover(sequences)
    /\ pc' = "discovered"
    /\ UNCHANGED <<run, args, rawFiles, tables, report, files,
                   unsuccessful_sequences, item, pending, running, listed,
                   results, started, manifests, exitLine, faults, runFailed,
                   prev>>

NextNames ==
    \/ Main_Start
    \/ Rename
    \/ DiscoverNames

SpecNames == InitNames /\ [][NextNames]_vars

\* the same program on the inputs of InitWorkers
SpecWorkers == InitWorkers /\ [][Next]_vars

\* the steps of parallel, of the processes it started and of the loop of
\* line 406
WorkerSteps ==
    \/ WorkerStart
    \/ \E s \in running : TrimWorker(s)
    \/ TrimJoin
    \/ \E f \in running : FastqcWorker(f)
    \/ FastqcJoin
    \/ \E s \in running : AssemblyWorker(s)
    \/ AssemblyJoin
    \/ \E s \in pending : DepthWorker(s)

\* parallel, the processes it started and main() keep running: such a step,
\* when one can be taken, is taken
FairSpecWorkers == SpecWorkers /\ WF_vars(WorkerSteps)

---------------------------------------------------------------------------
\* What the properties below speak of.

\* both read files of s are in the working directory
BothMates(s) == RawName(s, "_1") \in rawFiles /\ RawName(s, "_2") \in rawFiles

\* the sample identities the directory holds
Discovered == Range(Discover(Glob(rawFiles)))

\* this invocation went past the pairing check
PassedPairing ==
    /\ pc \notin {"start", "rename", "discover", "halted"}
    /\ ~(pc = "crashed" /\ exitLine \in {182, 457})

\* this invocation is over, other than by the exit of the pairing check
RunOver == pc \in {"done", "crashed"}

\* this invocation wrote its two manifests
WroteManifests == manifests.run = run

NoDuplicates(list) == \A i, j \in 1..Len(list) : list[i] = list[j] => i = j

\* the work items of sample s in a run list
ItemsOf(s) == {s} \cup {FastqcItem(s, e) : e \in ValExts}

\* the stage st is over in this invocation
StageOver(st) ==
    CASE st = "trim" -> pc \notin {"trim", "trim_workers"}
      [] st = "fastqc" -> pc \notin {"fastqc", "fastqc_workers"}
      [] st = "assembly" -> pc \notin {"assembly", "assembly_workers"}
      [] st = "depth" -> pc \notin {"depth", "depth_loop"}

---------------------------------------------------------------------------
\* C1: whenever a discovered sample lacks one of its two read files, no
\* work item is handed to any stage and no worker runs, for any sample.
C1_UnpairedInputStartsNoWorker ==
    (\E s \in Discovered : ~BothMates(s))
        => (listed = NoListed /\ results = {} /\ pending = {} /\ running = {})

\* C2: once trimming, assembly or read depth is over, every sample (with
\* both read files) whose own worker of that stage ended non-zero is out of
\* sequence_list and in unsuccessful_sequences.
C2_FailedWorkerLeavesActiveList ==
    \A r \in results :
        (/\ r[1] \in {"trim", "assembly", "depth"}
         /\ r[3] = "fail"
         /\ BothMates(r[2])
         /\ StageOver(r[1]))
            => (/\ r[2] \notin Range(sequence_list)
                /\ r[2] \in Range(unsuccessful_sequences))

\* every work item of s handed to a stage of this invocation ended ok
SucceededEverywhere(s) ==
    \A st \in WorkerStages : \A w \in Range(listed[st]) \cap ItemsOf(s) :
        <<st, w, "ok">> \in results

\* s has the completion marker of every stage begun in this invocation
HasMarkersOfStartedStages(s) ==
    /\ "trim" \in Range(started) => Trimmed(s) \subseteq files
    /\ "fastqc" \in Range(started)
          => \A e \in ValExts : ZipOf(FastqcItem(s, e)) \in files
    /\ "assembly" \in Range(started) => AssemblyMarker(s) \in files
    /\ "depth" \in Range(started) => DepthMarker(s) \in files

\* C3: when an invocation that passed the pairing check is over, every
\* sample with both read files, all of whose workers ended ok (and that had
\* one at least), is in successful_sequences.txt as written by this
\* invocation and has the marker of every stage that ran.
C3_SucceedingSampleIsInSuccessManifest ==
    (RunOver /\ PassedPairing)
        => \A s \in Discovered :
             (/\ BothMates(s)
              /\ SucceededEverywhere(s)
              /\ \E r \in results : r[2] \in ItemsOf(s))
                => (/\ WroteManifests
                    /\ s \in Range(manifests.successful)
                    /\ HasMarkersOfStartedStages(s))

\* C4: within an invocation, after discovery, sequence_list only loses
\* members, unsuccessful_sequences only gains members, and no member of
\* unsuccessful_sequences is a member of sequence_list.
C4_FailedSamplesNeverReturn ==
    [][(pc # "discover" /\ pc' # "start")
          => (/\ Range(sequence_list') \subseteq Range(sequence_list)
              /\ Range(unsuccessful_sequences) \subseteq Range(unsuccessful_sequences')
              /\ Range(unsuccessful_sequences') \cap Range(sequence_list') = {})]_vars

\* a sample left in trimming, and read depth is handed the other one only
C4_Witness ==
    /\ pc = "depth_loop"
    /\ "trim" \in Range(started)
    /\ Len(unsuccessful_sequences) = 1
    /\ Len(sequence_list) = 1
    /\ Range(listed["depth"]) = Range(sequence_list)

\* C5: a marker on disk (assembly, read depth) means the output of that
\* worker is on disk too.
C5_MarkerMeansOutput ==
    \A s \in SampleNames :
        /\ AssemblyMarker(s) \in files
              => (UnicyclerOut(s) \in files \/ AssemblyFasta(s) \in files)
        /\ DepthMarker(s) \in files => DepthTsv(s) \in files


\* the work a stage has to do, from the active samples and the disk alone
TrimTodo == {s \in Range(sequence_list) : ~(Trimmed(s) \subseteq files)}
FastqcTodo ==
    {f \in {FastqcItem(s, e) : s \in Range(sequence_list), e \in ValExts} :
        ZipOf(f) \notin files}
AssemblyTodo == {s \in Range(sequence_list) : AssemblyMarker(s) \notin files}
DepthTodo == {s \in Range(sequence_list) : DepthMarker(s) \notin files}

\* the list handed over is exactly todo, each item once, and the workers
\* waiting to start, if the call started any, are the same
Hands(list, waiting, workersPc, todo) ==
    /\ Range(list) = todo
    /\ NoDuplicates(list)
    /\ pc' = workersPc => waiting = todo

\* C6: each stage that runs hands over exactly the active samples (for
\* fastqc: their trimmed files) that lack the stage's marker, each once.
C6_DispatchedAreExactlyTheUnmarked ==
    [][/\ pc = "trim"
          => Hands(listed'["trim"], pending', "trim_workers", TrimTodo)
       /\ (pc = "fastqc" /\ ~(args.nofqc \/ args.noex))
          => Hands(listed'["fastqc"], pending', "fastqc_workers", FastqcTodo)
       /\ (pc = "assembly" /\ pc' # "crashed")
          => Hands(listed'["assembly"], pending', "assembly_workers", AssemblyTodo)
       /\ (pc = "depth" /\ ~(args.nocov \/ args.noex))
          => Hands(listed'["depth"], pending', "depth_loop", DepthTodo)]_vars

\* a second invocation in which assembly was handed one sample of two, the
\* other having its marker, and trimming, fastqc and read depth had work too
C6_Witness ==
    /\ run = 2
    /\ pc = "depth_loop"
    /\ Len(sequence_list) = 2
    /\ Len(listed["trim"]) = 2
    /\ Len(listed["fastqc"]) = 4
    /\ Len(listed["assembly"]) = 1
    /\ pending = Range(listed["depth"])
    /\ Len(listed["depth"]) = 2

\* C7: after an invocation that wrote its manifests and in which nothing
\* failed, the next invocation hands no work item to any stage and runs no
\* worker.
C7_ResumeDispatchesNothing ==
    (prev.ran /\ prev.wrote /\ ~prev.failed)
        => (listed = NoListed /\ results = {} /\ pending = {} /\ running = {})

\* the second invocation went through every stage, all enabled, after a
\* first one that did the work of two samples
C7_Witness ==
    /\ run = 2
    /\ prev.wrote /\ ~prev.failed
    /\ pc = "done"
    /\ Len(sequence_list) = 2
    /\ \A s \in SampleNames : DepthMarker(s) \in files
    /\ {"fastqc", "multiqc", "assembly", "quast", "mlst", "depth", "klebs"}
          \subseteq Range(started)
    /\ listed = NoListed

\* C8: the manifests an invocation writes are disjoint, cover the
\* discovered samples, and the failed one names discovered samples only.
C8_ManifestsPartitionTheSamples ==
    WroteManifests
        => (/\ Range(manifests.successful) \cap Range(manifests.failed) = {}
            /\ Discovered \subseteq
                  Range(manifests.successful) \cup Range(manifests.failed)
            /\ Range(manifests.failed) \subseteq Discovered)

\* C9: an invocation that passed the pairing check and is over has written
\* failed_sequences.txt.
C9_FailedManifestAlwaysWritten == (RunOver /\ PassedPairing) => WroteManifests

\* C10: no invocation ends on an uncaught exception.
C10_OnlyThePairingExitIsAbnormal == pc # "crashed"

---------------------------------------------------------------------------
\* The one-shot steps over all samples, and the report.

AggregateSteps == {"multiqc", "quast", "mlst", "depth_cat", "klebs"}

\* the step main() is at is enabled by the options
AggregateEnabled ==
    CASE pc = "quast" -> ~(args.noquast \/ args.noex)
      [] pc = "mlst" -> ~(args.nomlst \/ args.noex)
      [] pc = "klebs" -> args.klebs
      [] OTHER -> TRUE

\* the files the command of the step reads are there
AggregateHasInput ==
    CASE pc = "multiqc" -> \E p \in files : p[1] = "./QC/fastQC/"
      [] pc = "depth_cat" -> DepthSamples(files) # {}
      [] OTHER -> HasFasta

\* where main() goes on after the step
AfterAggregate ==
    CASE pc = "multiqc" -> "assembly"
      [] pc = "quast" -> "mlst"
      [] pc = "mlst" -> "depth"
      [] pc = "depth_cat" -> "klebs"
      [] pc = "klebs" -> "manifest"

\* C11: a step in which a one-shot aggregate command fails (its input is
\* missing, or the outside world fails it) leaves sequence_list and
\* unsuccessful_sequences as they are and goes on to the next stage.
C11_AggregateFailureStopsNothing ==
    [][(/\ pc \in AggregateSteps
        /\ AggregateEnabled
        /\ (faults' # faults \/ ~AggregateHasInput))
          => (/\ sequence_list' = sequence_list
              /\ unsuccessful_sequences' = unsuccessful_sequences
              /\ pc' = AfterAggregate)]_vars

\* this invocation wrote its report
WroteReport == report.run = run

\* the row(s) of sample s in the report
RowsOf(s) == {r \in report.rows : r.Assembly = s}

\* C12: an invocation that got as far as the report with one of the four
\* tables absent still writes its report.
C12_ReportSurvivesMissingTable ==
    (RunOver /\ WroteManifests /\ \E i \in 1..4 : ReportTables[i] \notin files)
        => WroteReport

\* C13: in the report an invocation writes, every sample of its final
\* successful list has a row, whose cells of a table are filled exactly when
\* that table has a row of the sample.
C13_EveryFinalSampleHasARow ==
    pc = "done"
        => \A s \in Range(manifests.successful) :
              \E r \in RowsOf(s) : \A c \in Columns : r[c] = (s \in tables[c])

\* a report of two final samples, one of them with no row in a table
C13_Witness ==
    /\ pc = "done"
    /\ WroteReport
    /\ Len(manifests.successful) = 2
    /\ \E s \in Range(manifests.successful) : \E c \in Columns :
          /\ s \notin tables[c]
          /\ \E r \in RowsOf(s) : ~r[c]

\* C14: the report an invocation writes has one row for each sample of its
\* final list and no other row.
C14_OneRowPerFinalSample ==
    pc = "done"
        => (/\ {r.Assembly : r \in report.rows} = Range(manifests.successful)
            /\ \A s \in Range(manifests.successful) : Cardinality(RowsOf(s)) = 1)

\* in this invocation the trimming and the assembly worker of s ended ok
\* and its read-depth worker failed
FailedDepthOnly(s) ==
    /\ <<"trim", s, "ok">> \in results
    /\ <<"assembly", s, "ok">> \in results
    /\ <<"depth", s, "fail">> \in results

\* C15: in the manifests an invocation writes, a sample that succeeded
\* trimming and assembly and failed read depth is in the successful one and
\* in the failed one.
C15_DepthFailureIsInBothManifests ==
    WroteManifests
        => \A s \in SampleNames :
              FailedDepthOnly(s)
                 => (/\ s \in Range(manifests.successful)
                     /\ s \in Range(manifests.failed))

\* C16: when an invocation is over, a sample that succeeded trimming and
\* assembly and failed read depth has a row in its report, with the typing
\* and the assembly-metric cells filled and the depth cells empty.
C16_DepthFailureLeavesDepthCellsEmpty ==
    (RunOver /\ PassedPairing)
        => \A s \in SampleNames :
              FailedDepthOnly(s)
                 => (/\ WroteReport
                     /\ \E r \in RowsOf(s) : r.typing /\ r.metrics /\ ~r.depth)

---------------------------------------------------------------------------
\* The order of the stages.

RankOf(st) ==
    CASE st = "trim" -> 1
      [] st = "fastqc" -> 2
      [] st = "multiqc" -> 3
      [] st = "assembly" -> 4
      [] st = "quast" -> 5
      [] st = "mlst" -> 6
      [] st = "depth" -> 7
      [] st = "depth_cat" -> 8
      [] st = "klebs" -> 9

\* the stage main() is in
StageAt(p) ==
    CASE p \in {"trim", "trim_workers"} -> "trim"
      [] p \in {"fastqc", "fastqc_workers"} -> "fastqc"
      [] p = "multiqc" -> "multiqc"
      [] p \in {"assembly", "assembly_workers"} -> "assembly"
      [] p = "quast" -> "quast"
      [] p = "mlst" -> "mlst"
      [] p \in {"depth", "depth_loop", "depth_cat"} -> "depth"
      [] p = "klebs" -> "klebs"
      [] OTHER -> "none"

WorkerPcs == {"trim_workers", "fastqc_workers", "assembly_workers", "depth_loop"}

\* the stages begun so far began in the fixed order, each once
StagesInOrder ==
    \A i, j \in 1..Len(started) : i < j => RankOf(started[i]) < RankOf(started[j])

\* workers wait or run only while main() is in their stage, the latest begun
WorkersOnlyInTheirStage ==
    IF pc \in WorkerPcs
    THEN /\ started # <<>>
         /\ started[Len(started)] = StageAt(pc)
         /\ pending \cup running \subseteq Range(listed[StageAt(pc)])
    ELSE pending = {} /\ running = {}

\* C17: the stages begin in the order trim, fastqc, multiqc, assembly,
\* quast, mlst, depth, kleborate; when main() leaves a stage no worker of it
\* is waiting or running; and the two lists change only in steps of the
\* stage begun last, never after a later stage began.
C17_StagesInOrderBehindABarrier ==
    [][/\ StagesInOrder'
       /\ WorkersOnlyInTheirStage'
       /\ (/\ pc # "discover" /\ pc' # "start"
           /\ <<sequence_list, unsuccessful_sequences>>'
                 # <<sequence_list, unsuccessful_sequences>>)
             => (started' # <<>> /\ started'[Len(started')] = StageAt(pc))]_vars

\* every stage began, the workers of trimming, fastqc and assembly ran two
\* at a time at least, and read depth took a sample off the list
C17_Witness ==
    /\ pc = "done"
    /\ started = <<"trim", "fastqc", "multiqc", "assembly", "quast", "mlst",
                   "depth", "depth_cat", "klebs">>
    /\ Len(listed["trim"]) = 2
    /\ Len(listed["fastqc"]) = 4
    /\ Len(listed["assembly"]) = 2
    /\ Len(unsuccessful_sequences) = 1
    /\ Len(sequence_list) = 1

\* C18: with --noex no stage after assembly begins: not quast, not mlst,
\* not read depth, not kleborate.
C18_NoExtrasStopsAfterAssembly ==
    args.noex => Range(started) \cap {"quast", "mlst", "depth", "klebs"} = {}

---------------------------------------------------------------------------
\* The workers of a stage.

\* the job count the option gives unicycler
DerivedJobs(n) == IF n > 8 THEN n \div 8 ELSE n

\* C19: never more than --threads workers of trimming or of fastqc run at
\* once, never more than the derived count of assembly workers, and read
\* depth has no two workers at once.
C19_WorkersWithinTheLimit ==
    /\ pc \in {"trim_workers", "fastqc_workers"}
          => Cardinality(running) <= args.threads
    /\ pc = "assembly_workers"
          => Cardinality(running) <= DerivedJobs(args.threads)
    /\ pc \notin {"trim_workers", "fastqc_workers", "assembly_workers"}
          => running = {}

\* --threads 2 and four fastqc jobs: two run and the others wait
C19_Witness ==
    /\ pc = "fastqc_workers"
    /\ args.threads = 2
    /\ Len(listed["fastqc"]) = 4
    /\ Cardinality(running) = 2
    /\ pending # {}

\* the work items handed to the workers of the stage main() is in at p
\* that have no result among res
OwedIn(p, res) ==
    {w \in Range(listed[StageAt(p)]) :
        \A o \in {"ok", "fail"} : <<StageAt(p), w, o>> \notin res}

\* C20: main() leaves the workers of a stage only when every work item
\* handed to them has had its worker run to its end, ok or failed, and it
\* does leave them, whatever the workers ended with.
C20_EveryWorkerRunsToItsEnd ==
    /\ [][(pc \in WorkerPcs /\ pc' # pc) => OwedIn(pc, results') = {}]_vars
    /\ \A p \in WorkerPcs : (pc = p) ~> (pc # p)

\* a stage in which a worker failed and the worker of the other sample,
\* started after it, ended ok
C20_Witness ==
    /\ args.threads = 1
    /\ pc = "assembly_workers"
    /\ pending = {} /\ running = {}
    /\ \E v, w \in SampleNames :
          /\ listed["assembly"] = <<v, w>>
          /\ <<"assembly", v, "fail">> \in results
          /\ <<"assembly", w, "ok">> \in results

---------------------------------------------------------------------------
\* What a failed worker leaves behind.

\* the files the worker of work item w in stage st writes
OutputsOf(st, w) ==
    CASE st = "trim" -> ValInCwd(w) \cup Trimmed(w)
      [] st = "fastqc" -> {ZipOf(w)}
      [] st = "assembly" -> {UnicyclerOut(w), AssemblyFasta(w), FastaCopy(w)}
      [] st = "depth" -> {DepthTsv(w)}

\* C21: once a stage is over, no file written by a worker of it that failed
\* is on disk.
C21_FailedWorkerLeavesNoOutput ==
    \A r \in results :
        (r[3] = "fail" /\ StageOver(r[1])) => OutputsOf(r[1], r[2]) \cap files = {}

---------------------------------------------------------------------------
\* The names of the read files.

\* no file of dir has one of Illumina's suffixes
Canonical(dir) ==
    \A f \in dir : ~Find(f, Chars("_R1_001")) /\ ~Find(f, Chars("_R2_001"))

\* the names of dir that end in _1.fastq.gz or _2.fastq.gz, without that end
BaseNames(dir) ==
    {DropLast(f, 11) : f \in {g \in dir : \/ EndsWith(g, Chars("_1.fastq.gz"))
                                          \/ EndsWith(g, Chars("_2.fastq.gz"))}}

\* C22: the renaming step, when its commands end with status 0, goes on to
\* discovery, leaves a directory that a second renaming would not change,
\* and changes no name of a directory that is canonical already; discovery,
\* under any order of the listing, gives a list without duplicates of
\* exactly the base names of the files ending in _1.fastq.gz or _2.fastq.gz.
C22_DiscoveryIsASetAndRenamingIdempotent ==
    [][/\ (pc = "rename" /\ faults' = faults)
             => (/\ pc' = "discover"
                 /\ RenameDir(rawFiles') = rawFiles'
                 /\ Canonical(rawFiles) => rawFiles' = rawFiles)
       /\ pc' = "discovered"
             => (/\ NoDuplicates(sequence_list')
                 /\ Range(sequence_list') = BaseNames(rawFiles'))]_vars

\* two samples found among three files, two of them the mates of one sample
C22_Witness ==
    /\ pc = "discovered"
    /\ Cardinality(rawFiles) = 3
    /\ Len(sequence_list) = 2
    /\ \E s \in SampleNames : BothMates(s)

---------------------------------------------------------------------------
\* The stages that leave the active samples alone.

\* C23: no step of fastqc, multiqc, assembly, quast, mlst or kleborate
\* changes sequence_list, whether its command works, fails or raises.
C23_OnlyTrimAndDepthChangeTheList ==
    [][(pc \in {"fastqc", "fastqc_workers", "multiqc", "assembly",
                "assembly_workers", "quast", "mlst", "klebs"})
          => (sequence_list' = sequence_list)]_vars

\* the call of fastqc raised and the call of unicycler raised, and both
\* samples are on the list still
C23_Witness ==
    /\ pc = "quast"
    /\ \E f \in Range(unsuccessful_sequences) : f \notin SampleNames
    /\ Len(listed["assembly"]) = 2
    /\ \A r \in results : r[1] # "assembly"
    /\ Len(sequence_list) = 2

---------------------------------------------------------------------------
\* The one-shot steps and the markers.

\* the one-shot steps the options of this invocation enable
EnabledAggregates ==
    (IF args.nofqc \/ args.noex THEN {} ELSE {"multiqc"})
    \cup (IF args.noquast \/ args.noex THEN {} ELSE {"quast"})
    \cup (IF args.nomlst \/ args.noex THEN {} ELSE {"mlst"})
    \cup (IF args.nocov \/ args.noex THEN {} ELSE {"depth_cat"})
    \cup (IF args.klebs THEN {"klebs"} ELSE {})

\* C24: main() at a one-shot step its options enable runs the command of
\* the step, whatever files and markers are there; and an invocation that
\* comes to its manifests has run every one-shot step its options enable.
C24_AggregatesRunOnEveryInvocation ==
    [][/\ (pc \in AggregateSteps /\ AggregateEnabled)
          => started' = Append(started, pc)
       /\ (pc' \in {"manifest", "report", "done"})
          => EnabledAggregates \subseteq Range(started')]_vars

\* a pure resume: the invocation before left every marker, this one found
\* no worker to dispatch in any stage and ran the five one-shot steps again
C24_Witness ==
    /\ run = 2
    /\ prev.wrote /\ ~prev.failed
    /\ pc = "manifest"
    /\ listed = NoListed
    /\ \A s \in SampleNames :
          {AssemblyMarker(s), DepthMarker(s)} \subseteq files
    /\ EnabledAggregates = AggregateSteps
    /\ AggregateSteps \subseteq Range(started)

====
